---- MODULE Spec2Model ----
(***************************************************************************)
(* In-memory task tracker (Go, net/http): the Task model, the mutex-guarded *)
(* TaskStore and the two request handlers.                                  *)
(*                                                                          *)
(* The repository holds two copies of the program: server.go and an older   *)
(* copy (unnamed/part_000).  They differ in UpdateTask and in the order of  *)
(* Preprocess/Validate in POST /todos.  The variable src records which copy *)
(* is running; it never changes during a run.                               *)
(***************************************************************************)
EXTENDS Integers, Sequences, FiniteSets, TLC

VARIABLES
    src,      \* the copy of the program that was built
    tasks,    \* TaskStore.tasks: map[int]Task
    tasks0,   \* history: the map when the goroutines made their calls
    mutex,    \* TaskStore.mutex: sync.RWMutex
    req,      \* the HTTP request being served
    resp,     \* the response written for it
    pc,       \* per goroutine: position inside a TaskStore method
    call,     \* per goroutine: the TaskStore method called and its arguments
    local,    \* per goroutine: the method's local variables (task, ok)
    ret       \* per goroutine: the method's return values

vars == <<src, tasks, tasks0, mutex, req, resp, pc, call, local, ret>>

----------------------------------------------------------------------------
(* Bounds *)

\* longest title a client sends
MaxLen == 2

\* goroutines calling the store concurrently
NumProcs == 2

----------------------------------------------------------------------------
(* Strings: sequences of characters *)

Chars == {" ", "a"}

Strings == UNION {[1..n -> Chars] : n \in 0..MaxLen}

IsSpace(c) == c \in {" ", "\t", "\n", "\r"}

RECURSIVE TrimLeft(_)
TrimLeft(s) ==
    IF s # <<>> /\ IsSpace(Head(s)) THEN TrimLeft(Tail(s)) ELSE s

RECURSIVE TrimRight(_)
TrimRight(s) ==
    IF s # <<>> /\ IsSpace(s[Len(s)])
    THEN TrimRight(SubSeq(s, 1, Len(s) - 1))
    ELSE s

TrimSpace(s) == TrimRight(TrimLeft(s))

----------------------------------------------------------------------------
(* Task model *)

StatusNotStarted == "not started"
StatusInProgress == "in progress"
StatusCompleted  == "completed"

IsValid(s) ==
    s = StatusNotStarted \/ s = StatusInProgress \/ s = StatusCompleted

Task(id, title, description, status) ==
    [ID |-> id, Title |-> title, Description |-> description, Status |-> status]

\* Task{}: the zero value
ZeroTask == Task(0, <<>>, <<>>, "")

\* Preprocess with the description left as sent
PreprocessTitleOnly(t) == [t EXCEPT !.Title = TrimSpace(@)]

Preprocess(t) ==
    [t EXCEPT !.Title = TrimSpace(@), !.Description = TrimSpace(@)]

\* errors are message tuples; nil is the empty tuple
Nil == <<>>
ErrInvalidID     == <<"id must be a positive integer">>
ErrEmptyTitle    == <<"title cannot be empty">>
ErrInvalidStatus == <<"invalid status">>

\* Validate that looks at the status first
ValidateStatusFirst(t) ==
    IF ~IsValid(t.Status) THEN ErrInvalidStatus
    ELSE IF t.ID <= 0 THEN ErrInvalidID
    ELSE IF t.Title = <<>> THEN ErrEmptyTitle
    ELSE Nil

Validate(t) ==
    IF t.ID <= 0 THEN ErrInvalidID
    ELSE IF t.Title = <<>> THEN ErrEmptyTitle
    ELSE IF ~IsValid(t.Status) THEN ErrInvalidStatus
    ELSE Nil

----------------------------------------------------------------------------
(* TaskStore: the methods as functions of the map (the effect of one call   *)
(* that runs alone)                                                         *)

NewTaskStore == <<>>

ErrExists(id)   == <<"task with id", id, "already exists">>
ErrNotFound(id) == <<"task with id", id, "not found">>

Has(ds, id) == id \in DOMAIN ds

Store(ds, id, task) == [k \in DOMAIN ds \cup {id} |-> IF k = id THEN task ELSE ds[k]]

\* a delete that blanks the record and keeps its key
RemoveKeepsKey(ds, id) == [ds EXCEPT ![id] = ZeroTask]

Remove(ds, id) == [k \in DOMAIN ds \ {id} |-> ds[k]]

\* CreateTask without the existence check
CreateTaskOverwrite(ds, task) ==
    [tasks |-> Store(ds, task.ID, task), err |-> Nil]

\* CreateTask that writes the record before it looks for the ID
CreateTaskWriteFirst(ds, task) ==
    [tasks |-> Store(ds, task.ID, task),
     err |-> IF Has(ds, task.ID) THEN ErrExists(task.ID) ELSE Nil]

CreateTask(ds, task) ==
    IF Has(ds, task.ID)
    THEN [tasks |-> ds, err |-> ErrExists(task.ID)]
    ELSE [tasks |-> Store(ds, task.ID, task), err |-> Nil]

\* every order in which range may visit the keys
Orders(S) ==
    {o \in [1..Cardinality(S) -> S] : \A i, j \in DOMAIN o : i # j => o[i] # o[j]}

GetAllTasks(ds, order) == [i \in DOMAIN order |-> ds[order[i]]]

GetTask(ds, id) ==
    IF ~Has(ds, id)
    THEN [task |-> ZeroTask, err |-> ErrNotFound(id)]
    ELSE [task |-> ds[id], err |-> Nil]

\* server.go: copy the three fields into the stored record, return it
UpdateFields(task, updated) ==
    [task EXCEPT !.Title = updated.Title,
                 !.Description = updated.Description,
                 !.Status = updated.Status]

\* UpdateTask that writes the record also when the id is absent
UpdateTaskUpsert(ds, id, updated) ==
    LET task == [updated EXCEPT !.ID = id]
    IN  [tasks |-> Store(ds, id, task), task |-> task, err |-> Nil]

UpdateTaskServer(ds, id, updated) ==
    IF ~Has(ds, id)
    THEN [tasks |-> ds, task |-> ZeroTask, err |-> ErrNotFound(id)]
    ELSE LET task == UpdateFields(ds[id], updated)
         IN  [tasks |-> Store(ds, id, task), task |-> task, err |-> Nil]

\* unnamed/part_000: store the whole payload, return the record read before
UpdateTaskOld(ds, id, updated) ==
    IF ~Has(ds, id)
    THEN [tasks |-> ds, task |-> ZeroTask, err |-> ErrNotFound(id)]
    ELSE [tasks |-> Store(ds, id, updated), task |-> ds[id], err |-> Nil]

UpdateTask(ds, id, updated) ==
    IF src = "server.go"
    THEN UpdateTaskServer(ds, id, updated)
    ELSE UpdateTaskOld(ds, id, updated)

DeleteTask(ds, id) ==
    IF ~Has(ds, id)
    THEN [tasks |-> ds, err |-> ErrNotFound(id)]
    ELSE [tasks |-> Remove(ds, id), err |-> Nil]

----------------------------------------------------------------------------
(* JSON and the path parameter *)

\* a JSON object with the Task struct's json tags
ToJSON(t) ==
    [id |-> t.ID, title |-> t.Title, description |-> t.Description,
     status |-> t.Status]

\* a request body: a JSON object, or bytes the decoder rejects
JSONBody(id, title, description, status) ==
    [wellformed |-> TRUE, id |-> id, title |-> title,
     description |-> description, status |-> status]

EmptyBody ==
    [wellformed |-> FALSE, id |-> 0, title |-> <<>>, description |-> <<>>,
     status |-> ""]

\* json.NewDecoder(r.Body).Decode(&t)
Decode(body) ==
    IF body.wellformed
    THEN [t |-> Task(body.id, body.title, body.description, body.status),
          err |-> Nil]
    ELSE [t |-> ZeroTask, err |-> <<"invalid JSON">>]

DigitChars == {"0", "1", "2", "3", "4", "5", "6", "7", "8", "9"}

DigitVal(c) ==
    CASE c = "0" -> 0 [] c = "1" -> 1 [] c = "2" -> 2 [] c = "3" -> 3
      [] c = "4" -> 4 [] c = "5" -> 5 [] c = "6" -> 6 [] c = "7" -> 7
      [] c = "8" -> 8 [] c = "9" -> 9

RECURSIVE ParseDigits(_, _)
ParseDigits(s, acc) ==
    IF s = <<>> THEN acc
    ELSE ParseDigits(Tail(s), acc * 10 + DigitVal(Head(s)))

AllDigits(s) == s # <<>> /\ \A i \in DOMAIN s : s[i] \in DigitChars

\* an Atoi that reads 0 where it cannot parse
AtoiLenient(s) ==
    [n |-> IF AllDigits(s) THEN ParseDigits(s, 0) ELSE 0, err |-> Nil]

\* strconv.Atoi
Atoi(s) ==
    LET signed == s # <<>> /\ Head(s) \in {"+", "-"}
        digits == IF signed THEN Tail(s) ELSE s
    IN  IF ~AllDigits(digits)
        THEN [n |-> 0, err |-> <<"invalid syntax">>]
        ELSE [n |-> IF signed /\ Head(s) = "-"
                    THEN 0 - ParseDigits(digits, 0)
                    ELSE ParseDigits(digits, 0),
              err |-> Nil]

----------------------------------------------------------------------------
(* Responses *)

StatusOK               == 200
StatusCreated          == 201
StatusNoContent        == 204
StatusBadRequest       == 400
StatusNotFound         == 404
StatusMethodNotAllowed == 405

\* http.Error(w, msg, code)
HttpError(msg, code) ==
    [status |-> code, kind |-> "text", msg |-> msg, json |-> <<>>]

\* w.WriteHeader(code) with nothing written after it
WriteHeader(code) ==
    [status |-> code, kind |-> "empty", msg |-> <<>>, json |-> <<>>]

\* json.NewEncoder(w).Encode(task): status 200, one object
EncodeTask(t) ==
    [status |-> StatusOK, kind |-> "object", msg |-> <<>>,
     json |-> <<ToJSON(t)>>]

\* json.NewEncoder(w).Encode(tasks): status 200, an array
EncodeTasks(list) ==
    [status |-> StatusOK, kind |-> "array", msg |-> <<>>,
     json |-> [i \in DOMAIN list |-> ToJSON(list[i])]]

Reply(ds, r) == [tasks |-> ds, resp |-> r]

----------------------------------------------------------------------------
(* Handlers: the whole handler as a function of the map and the request.    *)
(* order is the order in which range visits the map in GetAllTasks.         *)

\* server.go: Preprocess, then Validate
PostServer(ds, t0) ==
    LET t == Preprocess(t0)
        v == Validate(t)
        c == CreateTask(ds, t)
    IN  IF v # Nil THEN Reply(ds, HttpError(v, StatusBadRequest))
        ELSE IF c.err # Nil
        THEN Reply(c.tasks, HttpError(c.err, StatusBadRequest))
        ELSE Reply(c.tasks, WriteHeader(StatusCreated))

\* unnamed/part_000: Validate, then Preprocess
PostOld(ds, t0) ==
    LET v == Validate(t0)
        t == Preprocess(t0)
        c == CreateTask(ds, t)
    IN  IF v # Nil THEN Reply(ds, HttpError(v, StatusBadRequest))
        ELSE IF c.err # Nil
        THEN Reply(c.tasks, HttpError(c.err, StatusBadRequest))
        ELSE Reply(c.tasks, WriteHeader(StatusCreated))

todosHandler(ds, r, order) ==
    IF r.method = "POST"
    THEN LET d == Decode(r.body)
         IN  IF d.err # Nil
             THEN Reply(ds, HttpError(<<"invalid JSON">>, StatusBadRequest))
             ELSE IF src = "server.go" THEN PostServer(ds, d.t)
             ELSE PostOld(ds, d.t)
    ELSE IF r.method = "GET"
    THEN Reply(ds, EncodeTasks(GetAllTasks(ds, order)))
    ELSE Reply(ds, HttpError(<<"method not allowed">>, StatusMethodNotAllowed))

\* the PUT branch with the lookup of the id ahead of decoding and validation
PutTodoLookupFirst(ds, id, body) ==
    LET d == Decode(body)
        t == Preprocess(d.t)
        v == Validate(t)
        u == UpdateTask(ds, id, t)
    IN  IF ~Has(ds, id)
        THEN Reply(ds, HttpError(ErrNotFound(id), StatusNotFound))
        ELSE IF d.err # Nil
        THEN Reply(ds, HttpError(<<"invalid JSON">>, StatusBadRequest))
        ELSE IF v # Nil THEN Reply(ds, HttpError(v, StatusBadRequest))
        ELSE Reply(u.tasks, EncodeTask(u.task))

PutTodo(ds, id, body) ==
    LET d == Decode(body)
        t == Preprocess(d.t)
        v == Validate(t)
        u == UpdateTask(ds, id, t)
    IN  IF d.err # Nil
        THEN Reply(ds, HttpError(<<"invalid JSON">>, StatusBadRequest))
        ELSE IF v # Nil THEN Reply(ds, HttpError(v, StatusBadRequest))
        ELSE IF u.err # Nil
        THEN Reply(u.tasks, HttpError(u.err, StatusNotFound))
        ELSE Reply(u.tasks, EncodeTask(u.task))

\* switch r.Method of todoHandler, the id parsed
todoMethod(ds, id, r) ==
    IF r.method = "GET"
    THEN LET g == GetTask(ds, id)
         IN  IF g.err # Nil
             THEN Reply(ds, HttpError(g.err, StatusNotFound))
             ELSE Reply(ds, EncodeTask(g.task))
    ELSE IF r.method = "PUT" THEN PutTodo(ds, id, r.body)
    ELSE IF r.method = "DELETE"
    THEN LET x == DeleteTask(ds, id)
         IN  IF x.err # Nil
             THEN Reply(x.tasks, HttpError(x.err, StatusNotFound))
             ELSE Reply(x.tasks, WriteHeader(StatusNoContent))
    ELSE Reply(ds, HttpError(<<"method not allowed">>, StatusMethodNotAllowed))

\* todoHandler that looks at the method before it parses the id
todoHandlerMethodFirst(ds, r) ==
    IF r.method \notin {"GET", "PUT", "DELETE"}
    THEN Reply(ds, HttpError(<<"method not allowed">>, StatusMethodNotAllowed))
    ELSE IF r.id = <<>>
    THEN Reply(ds, HttpError(<<"missing id">>, StatusBadRequest))
    ELSE IF Atoi(r.id).err # Nil
    THEN Reply(ds, HttpError(<<"invalid id">>, StatusBadRequest))
    ELSE todoMethod(ds, Atoi(r.id).n, r)

todoHandler(ds, r) ==
    LET idStr == r.id
        a == Atoi(idStr)
        id == a.n
    IN  IF idStr = <<>>
        THEN Reply(ds, HttpError(<<"missing id">>, StatusBadRequest))
        ELSE IF a.err # Nil
        THEN Reply(ds, HttpError(<<"invalid id">>, StatusBadRequest))
        ELSE todoMethod(ds, id, r)

\* mux.HandleFunc("/todos", ...) and mux.HandleFunc("/todos/{id}", ...)
Mux(ds, r, order) ==
    IF r.path = "/todos" THEN todosHandler(ds, r, order) ELSE todoHandler(ds, r)

----------------------------------------------------------------------------
(* What clients send *)

Sources == {"server.go", "part_000"}

IDs == {1, 2}

\* the description and status a payload carries
Details ==
    { <<<<>>, StatusNotStarted>>,
      <<<<"a", " ">>, StatusInProgress>>,
      <<<<>>, StatusCompleted>>,
      <<<<" ", "a">>, "done">>,
      <<<<>>, "">> }

Bodies ==
    {JSONBody(i, s, d[1], d[2]) : i \in {0} \cup IDs, s \in Strings, d \in Details}
    \cup {EmptyBody}

\* r.PathValue("id")
PathValues == {<<>>, <<"x">>, <<"1">>, <<"2">>}

Request(method, path, id, body) ==
    [method |-> method, path |-> path, id |-> id, body |-> body]

NoReq == Request("", "", <<>>, EmptyBody)

NoResp == [status |-> 0, kind |-> "none", msg |-> <<>>, json |-> <<>>]

Procs == 1..NumProcs

----------------------------------------------------------------------------
(* The server, one request at a time: each action is one whole handler run  *)

Free == [writer |-> 0, readers |-> {}]

NoCall == [op |-> "", id |-> 0, task |-> ZeroTask]

NoLocal == [ok |-> FALSE, task |-> ZeroTask, left |-> {}, list |-> <<>>]

NoRet == [err |-> Nil, task |-> ZeroTask, list |-> <<>>]

Init ==
    /\ src \in Sources
    /\ tasks = NewTaskStore
    /\ tasks0 = NewTaskStore
    /\ mutex = Free
    /\ req = NoReq
    /\ resp = NoResp
    /\ pc = [p \in Procs |-> "idle"]
    /\ call = [p \in Procs |-> NoCall]
    /\ local = [p \in Procs |-> NoLocal]
    /\ ret = [p \in Procs |-> NoRet]

\* run the handler the mux picks for r and write its response
Serve(r, order) ==
    /\ LET out == Mux(tasks, r, order)
       IN  /\ tasks' = out.tasks
           /\ resp' = out.resp
    /\ req' = r
    /\ UNCHANGED <<src, tasks0, mutex, pc, call, local, ret>>

PostTodos ==
    /\ req = NoReq
    /\ \E b \in Bodies : Serve(Request("POST", "/todos", <<>>, b), <<>>)

ListTodos ==
    /\ req = NoReq
    /\ \E order \in Orders(DOMAIN tasks) :
        Serve(Request("GET", "/todos", <<>>, EmptyBody), order)

OtherTodos ==
    /\ req = NoReq
    /\ \E m \in {"PUT", "DELETE", "PATCH"} :
        Serve(Request(m, "/todos", <<>>, EmptyBody), <<>>)

GetTodo ==
    /\ req = NoReq
    /\ \E s \in PathValues :
        Serve(Request("GET", "/todos/{id}", s, EmptyBody), <<>>)

PutTodos ==
    /\ req = NoReq
    /\ \E s \in PathValues, b \in Bodies :
        Serve(Request("PUT", "/todos/{id}", s, b), <<>>)

DeleteTodo ==
    /\ req = NoReq
    /\ \E s \in PathValues :
        Serve(Request("DELETE", "/todos/{id}", s, EmptyBody), <<>>)

OtherTodo ==
    /\ req = NoReq
    /\ \E s \in PathValues, m \in {"POST", "PATCH"} :
        Serve(Request(m, "/todos/{id}", s, EmptyBody), <<>>)

\* the handler has returned; the server waits for the next request
Finish ==
    /\ req # NoReq
    /\ req' = NoReq
    /\ resp' = NoResp
    /\ UNCHANGED <<src, tasks, tasks0, mutex, pc, call, local, ret>>

Next ==
    \/ PostTodos
    \/ ListTodos
    \/ OtherTodos
    \/ GetTodo
    \/ PutTodos
    \/ DeleteTodo
    \/ OtherTodo
    \/ Finish

Spec == Init /\ [][Next]_vars

----------------------------------------------------------------------------
(* The store under concurrent callers: NumProcs goroutines, each inside one *)
(* TaskStore method, one action per statement that touches the mutex or     *)
(* the map.  The calls contend for id 1; id 2 is a bystander.               *)

Call(op, id, task) == [op |-> op, id |-> id, task |-> task]

T1a == Task(1, <<"a">>, <<>>, StatusNotStarted)
T1b == Task(1, <<"a", "a">>, <<"a">>, StatusCompleted)
T2  == Task(2, <<"a">>, <<>>, StatusInProgress)

\* an update payload whose ID is not the id it is sent to
U2  == Task(2, <<"a", "a">>, <<"a">>, StatusInProgress)

Calls ==
    { Call("Create", 1, T1a), Call("Create", 1, T1b),
      Call("Update", 1, T1b), Call("Update", 1, U2),
      Call("Get", 1, ZeroTask), Call("Delete", 1, ZeroTask),
      Call("List", 0, ZeroTask) }

InitialStores ==
    { NewTaskStore, Store(NewTaskStore, 1, T1a), Store(NewTaskStore, 2, T2),
      Store(Store(NewTaskStore, 1, T1a), 2, T2),
      Store(Store(NewTaskStore, 1, T1b), 2, T2) }

Writers == {"Create", "Update", "Delete"}
Readers == {"Get", "List"}

InitStore ==
    /\ src \in Sources
    /\ tasks \in InitialStores
    /\ tasks0 = tasks
    /\ mutex = Free
    /\ req = NoReq
    /\ resp = NoResp
    /\ call \in [Procs -> Calls]
    /\ pc = [p \in Procs |-> "lock"]
    /\ local = [p \in Procs |-> NoLocal]
    /\ ret = [p \in Procs |-> NoRet]

\* ds.mutex.Lock() with no exclusion at all
LockNoExclusion(p) ==
    /\ pc[p] = "lock"
    /\ call[p].op \in Writers
    /\ mutex' = [mutex EXCEPT !.writer = p]
    /\ pc' = [pc EXCEPT ![p] = "read"]
    /\ UNCHANGED <<src, tasks, tasks0, req, resp, call, local, ret>>

\* ds.mutex.Lock()
Lock(p) ==
    /\ pc[p] = "lock"
    /\ call[p].op \in Writers
    /\ mutex.writer = 0
    /\ mutex.readers = {}
    /\ mutex' = [mutex EXCEPT !.writer = p]
    /\ pc' = [pc EXCEPT ![p] = "read"]
    /\ UNCHANGED <<src, tasks, tasks0, req, resp, call, local, ret>>

\* ds.mutex.RLock() that does not wait for the writer
RLockNoExclusion(p) ==
    /\ pc[p] = "lock"
    /\ call[p].op \in Readers
    /\ mutex' = [mutex EXCEPT !.readers = @ \cup {p}]
    /\ pc' = [pc EXCEPT ![p] = "read"]
    /\ UNCHANGED <<src, tasks, tasks0, req, resp, call, local, ret>>

\* ds.mutex.RLock()
RLock(p) ==
    /\ pc[p] = "lock"
    /\ call[p].op \in Readers
    /\ mutex.writer = 0
    /\ mutex' = [mutex EXCEPT !.readers = @ \cup {p}]
    /\ pc' = [pc EXCEPT ![p] = "read"]
    /\ UNCHANGED <<src, tasks, tasks0, req, resp, call, local, ret>>

\* the map lookup of a method that gives the lock up right after it, and
\* writes later without it
ReadThenRelease(p) ==
    /\ pc[p] = "read"
    /\ LET c == call[p]
           ok == Has(tasks, c.id)
           goes == \/ c.op = "Create" /\ ~ok
                   \/ c.op \in {"Update", "Delete"} /\ ok
       IN  /\ local' = [local EXCEPT ![p] =
                [ok |-> ok,
                 task |-> IF ok THEN tasks[c.id] ELSE ZeroTask,
                 left |-> IF c.op = "List" THEN DOMAIN tasks ELSE {},
                 list |-> <<>>]]
           /\ pc' = [pc EXCEPT ![p] =
                IF c.op = "List" THEN "range"
                ELSE IF goes THEN "write" ELSE "unlock"]
    /\ mutex' = [mutex EXCEPT !.writer = IF @ = p THEN 0 ELSE @]
    /\ UNCHANGED <<src, tasks, tasks0, req, resp, call, ret>>

\* the map lookup: task, ok := ds.tasks[id]; for GetAllTasks, make(...) and
\* the start of the range loop
Read(p) ==
    /\ pc[p] = "read"
    /\ LET c == call[p]
           ok == Has(tasks, c.id)
           goes == \/ c.op = "Create" /\ ~ok
                   \/ c.op \in {"Update", "Delete"} /\ ok
       IN  /\ local' = [local EXCEPT ![p] =
                [ok |-> ok,
                 task |-> IF ok THEN tasks[c.id] ELSE ZeroTask,
                 left |-> IF c.op = "List" THEN DOMAIN tasks ELSE {},
                 list |-> <<>>]]
           /\ pc' = [pc EXCEPT ![p] =
                IF c.op = "List" THEN "range"
                ELSE IF goes THEN "write" ELSE "unlock"]
    /\ UNCHANGED <<src, tasks, tasks0, mutex, req, resp, call, ret>>

\* one iteration of for _, t := range ds.tasks { list = append(list, t) }
Range(p) ==
    /\ pc[p] = "range"
    /\ \/ /\ local[p].left = {}
          /\ pc' = [pc EXCEPT ![p] = "unlock"]
          /\ UNCHANGED local
       \/ /\ \E k \in local[p].left :
                local' = [local EXCEPT ![p].left = @ \ {k},
                                       ![p].list = IF Has(tasks, k)
                                                   THEN Append(@, tasks[k])
                                                   ELSE @]
          /\ UNCHANGED pc
    /\ UNCHANGED <<src, tasks, tasks0, mutex, req, resp, call, ret>>

\* a write that files an update under the payload's ID
WrittenByPayloadID(p) ==
    LET c == call[p]
    IN  IF c.op = "Delete" THEN Remove(tasks, c.id)
        ELSE Store(tasks, c.task.ID, c.task)

\* the write to the map, as the call's method does it
Written(p) ==
    LET c == call[p]
    IN  IF c.op = "Create" THEN Store(tasks, c.task.ID, c.task)
        ELSE IF c.op = "Delete" THEN Remove(tasks, c.id)
        ELSE IF src = "server.go"
        THEN Store(tasks, c.id, UpdateFields(local[p].task, c.task))
        ELSE Store(tasks, c.id, c.task)

\* ds.tasks[id] = task, or delete(ds.tasks, id)
Write(p) ==
    /\ pc[p] = "write"
    /\ tasks' = Written(p)
    /\ local' = [local EXCEPT ![p].task =
            IF call[p].op = "Update" /\ src = "server.go"
            THEN UpdateFields(@, call[p].task)
            ELSE @]
    /\ pc' = [pc EXCEPT ![p] = "unlock"]
    /\ UNCHANGED <<src, tasks0, mutex, req, resp, call, ret>>

\* what the method returns, from its locals
Returned(p) ==
    LET c == call[p]
        l == local[p]
    IN  IF c.op = "Create"
        THEN [err |-> IF l.ok THEN ErrExists(c.task.ID) ELSE Nil,
              task |-> ZeroTask, list |-> <<>>]
        ELSE IF c.op = "List"
        THEN [err |-> Nil, task |-> ZeroTask, list |-> l.list]
        ELSE IF ~l.ok
        THEN [err |-> ErrNotFound(c.id), task |-> ZeroTask, list |-> <<>>]
        ELSE IF c.op = "Delete"
        THEN [err |-> Nil, task |-> ZeroTask, list |-> <<>>]
        ELSE [err |-> Nil, task |-> l.task, list |-> <<>>]

\* an Unlock() that the paths returning an error leave out
UnlockOnSuccessOnly(p) ==
    /\ pc[p] = "unlock"
    /\ call[p].op \in Writers
    /\ mutex' = IF Returned(p).err = Nil
                THEN [mutex EXCEPT !.writer = 0]
                ELSE mutex
    /\ pc' = [pc EXCEPT ![p] = "return"]
    /\ UNCHANGED <<src, tasks, tasks0, req, resp, call, local, ret>>

\* ds.mutex.Unlock()
Unlock(p) ==
    /\ pc[p] = "unlock"
    /\ call[p].op \in Writers
    /\ mutex' = [mutex EXCEPT !.writer = 0]
    /\ pc' = [pc EXCEPT ![p] = "return"]
    /\ UNCHANGED <<src, tasks, tasks0, req, resp, call, local, ret>>

\* a method that returns without its RUnlock()
RUnlockForgotten(p) ==
    /\ pc[p] = "unlock"
    /\ call[p].op \in Readers
    /\ pc' = [pc EXCEPT ![p] = "return"]
    /\ UNCHANGED <<src, tasks, tasks0, mutex, req, resp, call, local, ret>>

\* ds.mutex.RUnlock()
RUnlock(p) ==
    /\ pc[p] = "unlock"
    /\ call[p].op \in Readers
    /\ mutex' = [mutex EXCEPT !.readers = @ \ {p}]
    /\ pc' = [pc EXCEPT ![p] = "return"]
    /\ UNCHANGED <<src, tasks, tasks0, req, resp, call, local, ret>>

\* the statements after the unlock: build and log the error, return
Return(p) ==
    /\ pc[p] = "return"
    /\ ret' = [ret EXCEPT ![p] = Returned(p)]
    /\ pc' = [pc EXCEPT ![p] = "done"]
    /\ UNCHANGED <<src, tasks, tasks0, mutex, req, resp, call, local>>

NextStore ==
    \E p \in Procs :
        \/ Lock(p)
        \/ RLock(p)
        \/ Read(p)
        \/ Range(p)
        \/ Write(p)
        \/ Unlock(p)
        \/ RUnlock(p)
        \/ Return(p)

SpecStore == InitStore /\ [][NextStore]_vars

\* the scheduler runs a goroutine that can take a step: the calls do not
\* all stand still while one of them can go on
SpecStoreFair == SpecStore /\ WF_vars(NextStore)

----------------------------------------------------------------------------
(* Validate on its own: one goroutine calls t.Validate() on a task drawn    *)
(* from every combination of id, title and status                           *)

\* t.Validate() through its pointer receiver: the task t points to after
\* the call, and the error returned
ValidateCall(t) == [t |-> t, err |-> Validate(t)]

ValidateInputs ==
    {Task(i, s, d[1], d[2]) : i \in {0 - 1, 0} \cup IDs, s \in Strings, d \in Details}

InitValidate ==
    /\ src \in Sources
    /\ tasks = NewTaskStore
    /\ tasks0 = NewTaskStore
    /\ mutex = Free
    /\ req = NoReq
    /\ resp = NoResp
    /\ \E t \in ValidateInputs :
        call = [p \in Procs |-> IF p = 1 THEN Call("Validate", 0, t) ELSE NoCall]
    /\ pc = [p \in Procs |-> IF p = 1 THEN "validate" ELSE "idle"]
    /\ local = [p \in Procs |-> NoLocal]
    /\ ret = [p \in Procs |-> NoRet]

\* err := t.Validate()
CallValidate ==
    /\ pc[1] = "validate"
    /\ LET v == ValidateCall(call[1].task)
       IN  /\ local' = [local EXCEPT ![1].task = v.t]
           /\ ret' = [ret EXCEPT ![1].err = v.err]
    /\ pc' = [pc EXCEPT ![1] = "done"]
    /\ UNCHANGED <<src, tasks, tasks0, mutex, req, resp, call>>

NextValidate == CallValidate

SpecValidate == InitValidate /\ [][NextValidate]_vars

----------------------------------------------------------------------------
(* Vocabulary of the properties, stated without the program's own helpers   *)

EnumeratedStatuses == {"not started", "in progress", "completed"}

\* s is empty or holds only whitespace
Blank(s) == \A i \in DOMAIN s : IsSpace(s[i])

\* s without its leading and trailing whitespace
Stripped(s) ==
    LET keep == {i \in DOMAIN s : ~IsSpace(s[i])}
        lo == CHOOSE i \in keep : \A j \in keep : i <= j
        hi == CHOOSE i \in keep : \A j \in keep : j <= i
    IN  IF keep = {} THEN <<>> ELSE SubSeq(s, lo, hi)

InvalidPayload(b) ==
    b.id <= 0 \/ Blank(b.title) \/ b.status \notin EnumeratedStatuses

ValidPayload(b) == b.wellformed /\ ~InvalidPayload(b)

ValidationErrors == {ErrInvalidID, ErrEmptyTitle, ErrInvalidStatus}

PathErrors == {<<"missing id">>, <<"invalid id">>}

\* the path values that name id
PathsOf(id) == {s \in PathValues : Atoi(s).err = Nil /\ Atoi(s).n = id}

IsPost(r) == r.method = "POST" /\ r.path = "/todos"
IsItem(r, m) == r.method = m /\ r.path = "/todos/{id}"

\* the item request addresses an integer id
Addressed(r) == r.id # <<>> /\ Atoi(r.id).err = Nil

\* the payload as the PUT handler hands it to UpdateTask
NewData(b) ==
    [Title |-> Stripped(b.title), Description |-> Stripped(b.description),
     Status |-> b.status]

----------------------------------------------------------------------------
(* C2 *)

\* C2: a POST /todos or PUT /todos/{id} whose payload has id <= 0, a blank
\* title or a status outside the three enumerated values is answered 400
\* by validation (the store method is never reached) and leaves the store
\* as it was.
C2_InvalidPayloadRejected ==
    [][ (/\ req = NoReq
         /\ IsPost(req') \/ IsItem(req', "PUT")
         /\ req'.body.wellformed
         /\ InvalidPayload(req'.body))
        => (/\ resp'.status = 400
            /\ resp'.msg \in ValidationErrors \cup PathErrors
            /\ tasks' = tasks) ]_vars

\* the same statement for the copy in server.go alone
C2_ServerGo ==
    [][ (/\ src = "server.go"
         /\ req = NoReq
         /\ IsPost(req') \/ IsItem(req', "PUT")
         /\ req'.body.wellformed
         /\ InvalidPayload(req'.body))
        => (/\ resp'.status = 400
            /\ resp'.msg \in ValidationErrors \cup PathErrors
            /\ tasks' = tasks) ]_vars

----------------------------------------------------------------------------
(* C3 *)

UpdatedThenGet(id, b) ==
    LET g == GetTask(tasks, id)
    IN  /\ g.err = Nil
        /\ g.task.ID = id
        /\ g.task.Title = NewData(b).Title
        /\ g.task.Description = NewData(b).Description
        /\ g.task.Status = NewData(b).Status

\* C3: right after a successful UpdateTask(id, newData), GetTask(id) returns
\* a record whose ID is id (also when newData.ID differs) and whose title,
\* description and status are newData's.
C3_UpdateThenGet ==
    (IsItem(req, "PUT") /\ resp.status = 200)
        => UpdatedThenGet(Atoi(req.id).n, req.body)

C3_ServerGo ==
    (src = "server.go" /\ IsItem(req, "PUT") /\ resp.status = 200)
        => UpdatedThenGet(Atoi(req.id).n, req.body)

----------------------------------------------------------------------------
(* C4 *)

PostUpdateRecord(id, b) ==
    [id |-> id, title |-> NewData(b).Title,
     description |-> NewData(b).Description, status |-> NewData(b).Status]

\* C4: the 200 response of PUT /todos/{id} carries the record as it is after
\* the update: the path id with the payload's title, description and status.
C4_UpdateReturnsNewRecord ==
    (IsItem(req, "PUT") /\ resp.status = 200)
        => /\ resp.kind = "object"
           /\ resp.json = <<PostUpdateRecord(Atoi(req.id).n, req.body)>>

C4_ServerGo ==
    (src = "server.go" /\ IsItem(req, "PUT") /\ resp.status = 200)
        => /\ resp.kind = "object"
           /\ resp.json = <<PostUpdateRecord(Atoi(req.id).n, req.body)>>

----------------------------------------------------------------------------
(* C5 *)

KeyIsID ==
    /\ \A k \in DOMAIN tasks :
        /\ tasks[k].ID = k
        /\ GetTask(tasks, k).err = Nil
        /\ GetTask(tasks, k).task.ID = k
    /\ \A order \in Orders(DOMAIN tasks) :
        LET list == GetAllTasks(tasks, order)
        IN  \A i, j \in DOMAIN list : i # j => list[i].ID # list[j].ID

\* C5: in every reachable state the record stored under key k has ID k, so
\* GetAllTasks returns pairwise distinct IDs and GetTask(k) a record with
\* ID k.
C5_KeyIsID == KeyIsID

C5_ServerGo == src = "server.go" => KeyIsID

----------------------------------------------------------------------------
(* C6 *)

WellFormedTask(t) ==
    /\ t.ID > 0
    /\ t.Title # <<>>
    /\ ~IsSpace(t.Title[1])
    /\ ~IsSpace(t.Title[Len(t.Title)])
    /\ t.Status \in EnumeratedStatuses

\* C6: every task stored through the handlers has id > 0, a non-empty title
\* without leading or trailing whitespace, and an enumerated status.
C6_StoredTasksValid == \A k \in DOMAIN tasks : WellFormedTask(tasks[k])

C6_ServerGo == src = "server.go" => \A k \in DOMAIN tasks : WellFormedTask(tasks[k])

----------------------------------------------------------------------------
(* C7 *)

GetRequest(s) == Request("GET", "/todos/{id}", s, EmptyBody)

NotFoundMsg(id) == <<"task with id", id, "not found">>

DuplicateMsg(id) == <<"task with id", id, "already exists">>

\* the record a payload becomes once created: the payload, trimmed
Created(b) ==
    [id |-> b.id, title |-> Stripped(b.title),
     description |-> Stripped(b.description), status |-> b.status]

\* GET /todos/{b.id} on store ds answers 200 with the trimmed payload
GetReturnsCreated(ds, b) ==
    /\ PathsOf(b.id) # {}
    /\ \A s \in PathsOf(b.id) :
        LET g == todoHandler(ds, GetRequest(s))
        IN  /\ g.resp.status = 200
            /\ g.resp.kind = "object"
            /\ g.resp.json = <<Created(b)>>
            /\ g.tasks = ds

\* C7: POST /todos with a valid task whose ID is absent answers 201, and a
\* GET /todos/{id} that follows with no mutation in between answers 200 with
\* the task, its title and description trimmed.
C7_CreateThenGet ==
    [][ (/\ req = NoReq
         /\ IsPost(req')
         /\ ValidPayload(req'.body)
         /\ ~Has(tasks, req'.body.id))
        => (/\ resp'.status = 201
            /\ resp'.kind = "empty"
            /\ GetReturnsCreated(tasks', req'.body)) ]_vars

\* a task whose title and description both needed trimming was created
C7_Witness ==
    /\ IsPost(req)
    /\ resp.status = 201
    /\ req.body.title # Stripped(req.body.title)
    /\ req.body.description # Stripped(req.body.description)
    /\ GetReturnsCreated(tasks, req.body)

----------------------------------------------------------------------------
(* C8 *)

\* a second POST with payload b on store ds fails as a duplicate and leaves
\* the record the first POST (payload first) wrote
SecondCreateFails(ds, first, b) ==
    LET again == todosHandler(ds, Request("POST", "/todos", <<>>, b), <<>>)
    IN  /\ again.resp.status = 400
        /\ again.resp.msg = DuplicateMsg(first.id)
        /\ again.tasks = ds
        /\ ToJSON(again.tasks[first.id]) = Created(first)

\* C8: creating a valid task with an absent ID answers 201; creating it
\* again, or any other valid payload with the same ID, then answers 400
\* with the duplicate-ID error and the stored record stays the first one.
C8_SecondCreateFails ==
    [][ (/\ req = NoReq
         /\ IsPost(req')
         /\ ValidPayload(req'.body)
         /\ ~Has(tasks, req'.body.id))
        => (/\ resp'.status = 201
            /\ \A b \in Bodies :
                (ValidPayload(b) /\ b.id = req'.body.id)
                    => SecondCreateFails(tasks', req'.body, b)) ]_vars

\* a created task, and another valid payload with its ID that differs
C8_Witness ==
    /\ IsPost(req)
    /\ resp.status = 201
    /\ \E b \in Bodies :
        /\ ValidPayload(b)
        /\ b.id = req.body.id
        /\ Created(b) # Created(req.body)
        /\ SecondCreateFails(tasks, req.body, b)

----------------------------------------------------------------------------
(* C9 *)

NotFoundResponse(id) ==
    /\ resp'.status = 404
    /\ resp'.msg = NotFoundMsg(id)
    /\ tasks' = tasks

AbsentIsNotFound(id) ==
    /\ IsItem(req', "GET") =>
        /\ GetTask(tasks, id).err = NotFoundMsg(id)
        /\ NotFoundResponse(id)
    /\ IsItem(req', "DELETE") =>
        /\ DeleteTask(tasks, id).err = NotFoundMsg(id)
        /\ DeleteTask(tasks, id).tasks = tasks
        /\ NotFoundResponse(id)
    /\ (IsItem(req', "PUT") /\ req'.body.wellformed) =>
        LET u == UpdateTask(tasks, id, Decode(req'.body).t)
        IN  /\ u.err = NotFoundMsg(id)
            /\ u.tasks = tasks
            /\ ~Has(u.tasks, id)
            /\ ValidPayload(req'.body) => NotFoundResponse(id)

\* C9: for an id that is not in the store, GetTask, UpdateTask (whatever the
\* payload) and DeleteTask fail with not-found, the item route answers 404,
\* and the store stays as it was: UpdateTask inserts nothing.
C9_AbsentIsNotFound ==
    [][ (/\ req = NoReq
         /\ req'.path = "/todos/{id}"
         /\ Addressed(req')
         /\ ~Has(tasks, Atoi(req'.id).n))
        => AbsentIsNotFound(Atoi(req'.id).n) ]_vars

\* a PUT with a valid payload to an absent id was answered 404
C9_Witness ==
    /\ IsItem(req, "PUT")
    /\ ValidPayload(req.body)
    /\ Addressed(req)
    /\ resp.status = 404
    /\ resp.msg = NotFoundMsg(Atoi(req.id).n)
    /\ ~Has(tasks, Atoi(req.id).n)
    /\ tasks # <<>>

----------------------------------------------------------------------------
(* C10 *)

AbsentEverywhere(ds, id) ==
    /\ GetTask(ds, id).err = NotFoundMsg(id)
    /\ \A s \in PathsOf(id) : todoHandler(ds, GetRequest(s)).resp.status = 404
    /\ \A order \in Orders(DOMAIN ds) :
        \A i \in DOMAIN order : GetAllTasks(ds, order)[i].ID # id

DeletedStaysAbsent ==
    /\ (req = NoReq /\ IsItem(req', "DELETE") /\ resp'.status = 204)
        => AbsentEverywhere(tasks', Atoi(req'.id).n)
    /\ \A id \in IDs :
        (~Has(tasks, id) /\ Has(tasks', id))
            => (IsPost(req') /\ req'.body.id = id /\ resp'.status = 201)

\* C10: after a successful DeleteTask(id), GetTask(id) fails with not-found
\* (404) and GetAllTasks returns no record with that id; the id comes back
\* only through a successful CreateTask with that id.
C10_DeletedStaysAbsent == [][DeletedStaysAbsent]_vars

C10_ServerGo == [][src = "server.go" => DeletedStaysAbsent]_vars

----------------------------------------------------------------------------
(* C1 *)

\* p and q both called CreateTask with one ID that the map did not hold, and
\* no other goroutine writes the map
TwoCreates(p, q) ==
    /\ p # q
    /\ call[p].op = "Create"
    /\ call[q].op = "Create"
    /\ call[p].task.ID = call[q].task.ID
    /\ call[p].task.ID \notin DOMAIN tasks0
    /\ \A r \in Procs \ {p, q} : call[r].op \in {"Get", "List"}

\* p's create succeeded, q's failed as a duplicate, the map holds p's record
Wins(p, q) ==
    /\ ret[p].err = <<>>
    /\ ret[q].err = DuplicateMsg(call[q].task.ID)
    /\ call[p].task.ID \in DOMAIN tasks
    /\ tasks[call[p].task.ID] = call[p].task

\* C1: of two concurrent CreateTask calls with the same ID, absent from the
\* store, exactly one succeeds and the other fails with the duplicate-ID
\* error, in every interleaving; the store then holds the winner's record.
C1_OneCreateWins ==
    \A p, q \in Procs :
        (TwoCreates(p, q) /\ pc[p] = "done" /\ pc[q] = "done")
            => (Wins(p, q) \/ Wins(q, p)) /\ ~(Wins(p, q) /\ Wins(q, p))

\* two creates with different payloads have both returned, the second won
C1_Witness ==
    /\ TwoCreates(1, 2)
    /\ call[1].task # call[2].task
    /\ pc[1] = "done"
    /\ pc[2] = "done"
    /\ Wins(2, 1)

----------------------------------------------------------------------------
(* C11 *)

\* p and q both called UpdateTask or DeleteTask with one id, and no other
\* goroutine writes the map
TwoMutations(p, q) ==
    /\ p # q
    /\ call[p].op \in {"Update", "Delete"}
    /\ call[q].op \in {"Update", "Delete"}
    /\ call[p].id = call[q].id
    /\ \A r \in Procs \ {p, q} : call[r].op \in Readers

\* the call c run alone on the store ds: the store after it and its result
Alone(ds, c) ==
    IF c.op = "Update"
    THEN LET u == UpdateTask(ds, c.id, c.task)
         IN  [tasks |-> u.tasks,
              ret |-> [err |-> u.err, task |-> u.task, list |-> <<>>]]
    ELSE LET d == DeleteTask(ds, c.id)
         IN  [tasks |-> d.tasks,
              ret |-> [err |-> d.err, task |-> ZeroTask, list |-> <<>>]]

\* the two results and the map are those of p's call run before q's
InOrder(p, q) ==
    LET first == Alone(tasks0, call[p])
        second == Alone(first.tasks, call[q])
    IN  /\ ret[p] = first.ret
        /\ ret[q] = second.ret
        /\ tasks = second.tasks

\* two deletes did not both succeed
NoDoubleDelete(p, q) ==
    (call[p].op = "Delete" /\ call[q].op = "Delete")
        => ~(ret[p].err = <<>> /\ ret[q].err = <<>>)

\* once a delete has succeeded the id is gone, whatever the update did
NoReinsert(p, q) ==
    (call[p].op = "Delete" /\ ret[p].err = <<>>)
        => call[p].id \notin DOMAIN tasks

\* an update that succeeded is either in the map or was followed by the
\* other call's write
NoLostUpdate(p, q) ==
    (call[p].op = "Update" /\ ret[p].err = <<>> /\ ret[q].err # <<>>)
        => /\ call[p].id \in DOMAIN tasks
           /\ tasks[call[p].id].Title = call[p].task.Title
           /\ tasks[call[p].id].Description = call[p].task.Description
           /\ tasks[call[p].id].Status = call[p].task.Status

\* C11: two concurrent mutating calls (Update/Update, Update/Delete,
\* Delete/Delete) on one id leave, in every interleaving, the two results
\* and the map that running them one after the other leaves, in one of the
\* two orders: no update is lost, two deletes never both succeed, an update
\* after a delete gets not-found and does not put the record back.
C11_Serializable ==
    \A p, q \in Procs :
        (TwoMutations(p, q) /\ pc[p] = "done" /\ pc[q] = "done")
            => /\ InOrder(p, q) \/ InOrder(q, p)
               /\ NoDoubleDelete(p, q)
               /\ NoReinsert(p, q)
               /\ NoLostUpdate(p, q)

\* an update and a delete of a stored id have both returned; the delete ran
\* first and the update got not-found
C11_Witness ==
    /\ TwoMutations(1, 2)
    /\ call[1].op = "Update"
    /\ call[2].op = "Delete"
    /\ call[1].id \in DOMAIN tasks0
    /\ pc[1] = "done"
    /\ pc[2] = "done"
    /\ ret[2].err = <<>>
    /\ ret[1].err = NotFoundMsg(call[1].id)
    /\ call[1].id \notin DOMAIN tasks

----------------------------------------------------------------------------
(* C12 *)

\* the records of a list, and of a map
ListRecords(list) == {list[i] : i \in DOMAIN list}
MapRecords(ds) == {ds[k] : k \in DOMAIN ds}

\* list holds each record of ds once and nothing else
SnapshotOf(list, ds) ==
    /\ ListRecords(list) = MapRecords(ds)
    /\ Len(list) = Cardinality(DOMAIN ds)

\* title, description and status of a record
Fields(t) == <<t.Title, t.Description, t.Status>>

\* the field triples some Create or Update wrote: those of the calls, and
\* those of the records stored before the calls began
WrittenFields ==
    {Fields(call[q].task) : q \in {r \in Procs : call[r].op \in {"Create", "Update"}}}
        \cup {Fields(tasks0[k]) : k \in DOMAIN tasks0}

\* GetAllTasks: at the step that releases the shared lock the list is the
\* map of that instant, and that list is what the call returns
ListIsSnapshot(p) ==
    call[p].op = "List" =>
        /\ (pc[p] = "unlock" /\ pc'[p] = "return")
                => SnapshotOf(local[p].list, tasks)
        /\ pc[p] = "return" => local'[p].list = local[p].list
        /\ (pc[p] = "return" /\ pc'[p] = "done")
                => ret'[p].list = local[p].list

\* no record returned by GetAllTasks or GetTask mixes the fields of two
\* writes
WholeRecords(p) ==
    (pc[p] = "return" /\ pc'[p] = "done") =>
        /\ call[p].op = "List" =>
                \A t \in ListRecords(ret'[p].list) : Fields(t) \in WrittenFields
        /\ (call[p].op = "Get" /\ ret'[p].err = <<>>) =>
                Fields(ret'[p].task) \in WrittenFields

\* C12: a GetAllTasks call that runs while other goroutines create, update
\* and delete returns exactly the records the map held at one instant
\* between its start and its return (the instant it releases the shared
\* lock), and every record GetAllTasks or GetTask returns has title,
\* description and status from one and the same Create or Update.
C12_ListIsSnapshot ==
    [][\A p \in Procs : ListIsSnapshot(p) /\ WholeRecords(p)]_vars

\* GetAllTasks has returned two records, among them one that an UpdateTask
\* running beside it wrote
C12_Witness ==
    /\ call[1].op = "List"
    /\ call[2].op = "Update"
    /\ pc[1] = "done"
    /\ pc[2] = "done"
    /\ tasks # tasks0
    /\ Len(ret[1].list) = 2
    /\ SnapshotOf(ret[1].list, tasks)

----------------------------------------------------------------------------
(* C13 *)

ErrorStatuses == {400, 404, 405}

\* the reasons the handlers give with an error status
ErrorReasons ==
    {<<"invalid JSON">>, <<"method not allowed">>} \cup ValidationErrors
        \cup PathErrors \cup {NotFoundMsg(i) : i \in {0} \cup IDs}
        \cup {DuplicateMsg(i) : i \in IDs}

\* C13: a request that ends in an error (400 for a malformed payload, a
\* validation failure, a duplicate ID or a bad path id; 404; 405) leaves
\* the store's contents exactly as they were before the request.
C13_ErrorsLeaveStore ==
    [][ (req = NoReq /\ req' # NoReq /\ resp'.status \in ErrorStatuses)
            => tasks' = tasks /\ resp'.msg \in ErrorReasons ]_vars

\* a POST with a stored ID and another title was refused as a duplicate,
\* the stored record still has its own title
C13_Witness ==
    /\ IsPost(req)
    /\ resp.status = 400
    /\ resp.msg = DuplicateMsg(req.body.id)
    /\ req.body.id \in DOMAIN tasks
    /\ tasks[req.body.id].Title # Stripped(req.body.title)

----------------------------------------------------------------------------
(* C14 *)

\* the method is not one the route enumerates
Unsupported(r) ==
    \/ r.path = "/todos" /\ r.method \notin {"POST", "GET"}
    \/ r.path = "/todos/{id}" /\ r.method \notin {"GET", "PUT", "DELETE"}

MethodNotAllowed ==
    /\ resp'.status = 405
    /\ resp'.msg = <<"method not allowed">>
    /\ tasks' = tasks

\* C14: a request whose method is not enumerated for its route (other than
\* POST/GET on /todos, other than GET/PUT/DELETE on /todos/{id}) is
\* answered 405 method not allowed, whatever the path id segment is.
C14_UnsupportedIs405 ==
    [][ (req = NoReq /\ req' # NoReq /\ Unsupported(req'))
            => MethodNotAllowed ]_vars

\* C14, amended: on /todos an unsupported method is answered 405; on
\* /todos/{id} it is answered 405 when the id segment is an integer, and
\* 400 (missing id, invalid id) when it is missing or not an integer.
C14_UnsupportedAfterID ==
    [][ (req = NoReq /\ req' # NoReq /\ Unsupported(req'))
            => IF req'.path = "/todos/{id}" /\ ~Addressed(req')
               THEN /\ resp'.status = 400
                    /\ resp'.msg \in PathErrors
                    /\ tasks' = tasks
               ELSE MethodNotAllowed ]_vars

\* PATCH /todos/x was answered 400 invalid id
C14_Witness ==
    /\ IsItem(req, "PATCH")
    /\ req.id = <<"x">>
    /\ resp.status = 400
    /\ resp.msg = <<"invalid id">>

----------------------------------------------------------------------------
(* C15 *)

\* the PUT just served and the same PUT with i as the body's id, on the
\* same store, get one status and leave one store
SameWithID(i) ==
    LET other == Mux(tasks, [req' EXCEPT !.body.id = i], <<>>)
    IN  /\ other.resp.status = resp'.status
        /\ other.tasks = tasks'

\* C15: PUT /todos/{id} ignores the id in the body: two PUTs to one path id
\* on one store whose bodies differ only in their id get the same status
\* and leave the same store.
C15_BodyIDIgnored ==
    [][ (req = NoReq /\ IsItem(req', "PUT") /\ req'.body.wellformed)
            => \A i \in {0} \cup IDs : SameWithID(i) ]_vars

\* what is left of C15 in server.go: among positive body ids the id makes
\* no difference
C15_ServerGo ==
    [][ (/\ src = "server.go"
         /\ req = NoReq
         /\ IsItem(req', "PUT")
         /\ req'.body.wellformed
         /\ req'.body.id > 0)
            => \A i \in IDs : SameWithID(i) ]_vars

\* server.go has replaced the record at path id 1 on a PUT whose body
\* carries id 2
C15_ServerGoWitness ==
    /\ src = "server.go"
    /\ IsItem(req, "PUT")
    /\ req.id = <<"1">>
    /\ req.body.id = 2
    /\ resp.status = 200

----------------------------------------------------------------------------
(* C16 *)

\* the validation reason a response carries; <<>> when it is not a
\* validation rejection
RejectReason(r) ==
    IF r.status = 400 /\ r.msg \in ValidationErrors THEN r.msg ELSE <<>>

\* the reason for which the payload b, trimmed, is invalid; <<>> when it
\* is valid
Reason(b) ==
    IF b.id <= 0 THEN <<"id must be a positive integer">>
    ELSE IF Blank(b.title) THEN <<"title cannot be empty">>
    ELSE IF b.status \notin EnumeratedStatuses THEN <<"invalid status">>
    ELSE <<>>

\* the other of POST /todos and PUT /todos/{id}, with the same body
Counterparts(r) ==
    IF IsPost(r)
    THEN {Request("PUT", "/todos/{id}", s, r.body) :
            s \in {x \in PathValues : Atoi(x).err = <<>>}}
    ELSE {Request("POST", "/todos", <<>>, r.body)}

SameValidation ==
    (/\ req = NoReq
     /\ IsPost(req') \/ (IsItem(req', "PUT") /\ Addressed(req'))
     /\ req'.body.wellformed)
        => /\ RejectReason(resp') = Reason(req'.body)
           /\ \A c \in Counterparts(req') :
                RejectReason(Mux(tasks, c, <<>>).resp) = RejectReason(resp')

\* C16: PUT validates its payload as POST does: for every decoded payload
\* PUT /todos/{id} answers 400 with a validation reason if and only if
\* POST /todos does, with the same reason, and the reason is that of the
\* trimmed payload (Preprocess runs before Validate in both).
C16_SameValidation == [][SameValidation]_vars

C16_ServerGo == [][src = "server.go" => SameValidation]_vars

\* server.go has refused a PUT whose title is only whitespace
C16_ServerGoWitness ==
    /\ src = "server.go"
    /\ IsItem(req, "PUT")
    /\ Addressed(req)
    /\ req.body.id > 0
    /\ req.body.title # <<>>
    /\ resp.status = 400
    /\ resp.msg = <<"title cannot be empty">>

----------------------------------------------------------------------------
(* C17 *)

\* the id segment is missing or is not an integer
BadSegment(s) ==
    \/ s = <<>>
    \/ \E i \in DOMAIN s : s[i] \notin DigitChars /\ ~(i = 1 /\ s[i] \in {"+", "-"})
    \/ s \in {<<"+">>, <<"-">>}

\* the answer owes nothing to the store or to the body: it is the one the
\* handler gives on an empty store and with no body
StoreNotConsulted ==
    /\ tasks' = tasks
    /\ Mux(NewTaskStore, req', <<>>).resp = resp'
    /\ Mux(tasks, [req' EXCEPT !.body = EmptyBody], <<>>).resp = resp'

\* C17: on /todos/{id} a missing or non-integer id segment is answered 400
\* (missing id, invalid id) before any store operation, for GET, PUT and
\* DELETE alike.
C17_BadIDIs400 ==
    [][ (/\ req = NoReq
         /\ \E m \in {"GET", "PUT", "DELETE"} : IsItem(req', m)
         /\ BadSegment(req'.id))
            => /\ resp'.status = 400
               /\ resp'.msg = IF req'.id = <<>> THEN <<"missing id">>
                              ELSE <<"invalid id">>
               /\ StoreNotConsulted ]_vars

\* PUT /todos/x with a valid body on a store that holds tasks was answered
\* 400 invalid id
C17_Witness ==
    /\ IsItem(req, "PUT")
    /\ req.id = <<"x">>
    /\ ValidPayload(req.body)
    /\ tasks # NewTaskStore
    /\ resp.status = 400
    /\ resp.msg = <<"invalid id">>

----------------------------------------------------------------------------
(* C18 *)

\* p is between its Lock() and its Unlock()
HoldsExclusive(p) ==
    call[p].op \in Writers /\ pc[p] \in {"read", "write", "unlock"}

\* p is between its RLock() and its RUnlock()
HoldsShared(p) ==
    call[p].op \in Readers /\ pc[p] \in {"read", "range", "unlock"}

\* the id whose presence p's method checks
CheckedID(p) == IF call[p].op = "Create" THEN call[p].task.ID ELSE call[p].id

\* p is about to write on the strength of its existence check: it is the
\* exclusive holder, and what it found is still so
CheckStillHolds(p) ==
    pc[p] = "write" =>
        /\ mutex.writer = p
        /\ mutex.readers = {}
        /\ local[p].ok = Has(tasks, CheckedID(p))

\* C18: whenever an operation holds the store lock exclusively (Create,
\* Update, Delete) no other operation holds it in any mode; Create, Update
\* and Delete do their existence check and their write within one exclusive
\* hold; Get and List read the map only while they hold the shared lock.
C18_LockDiscipline ==
    \A p \in Procs :
        /\ HoldsExclusive(p) =>
                /\ mutex.writer = p
                /\ \A q \in Procs \ {p} : ~HoldsExclusive(q) /\ ~HoldsShared(q)
        /\ CheckStillHolds(p)
        /\ (HoldsShared(p) /\ pc[p] \in {"read", "range"}) =>
                p \in mutex.readers /\ mutex.writer = 0

\* an UpdateTask is about to write while a reader waits for the lock
C18_Witness ==
    /\ call[1].op = "Update"
    /\ pc[1] = "write"
    /\ call[2].op \in Readers
    /\ pc[2] = "lock"

----------------------------------------------------------------------------
(* C19 *)

\* p is outside the locked part of its store method: it has not called
\* Lock/RLock yet (the handler decodes and validates before the call), or
\* it is past Unlock/RUnlock, at the method's error logging and return, or
\* back in the handler (logging, writing the response)
OutsideStore(p) == pc[p] \in {"lock", "return", "done"}

\* C19: no handler holds the store lock while it decodes, validates, logs
\* or writes a response: a request outside the locked part of a store
\* method, the method's error logging and return included, holds neither
\* the shared nor the exclusive lock.
C19_NoLockOutside ==
    \A p \in Procs :
        OutsideStore(p) => mutex.writer # p /\ p \notin mutex.readers

\* CreateTask found its ID taken and is at its error logging, and another
\* goroutine already holds the lock exclusively
C19_Witness ==
    /\ call[1].op = "Create"
    /\ pc[1] = "return"
    /\ local[1].ok
    /\ mutex.writer = 2

----------------------------------------------------------------------------
(* C20 *)

\* the one reason the claim gives for the task t; <<>> for success
ExpectedReason(t) ==
    IF t.ID <= 0 THEN <<"id must be a positive integer">>
    ELSE IF Len(t.Title) = 0 THEN <<"title cannot be empty">>
    ELSE IF t.Status \notin EnumeratedStatuses THEN <<"invalid status">>
    ELSE <<>>

\* C20: Validate reports exactly one reason, by a fixed precedence:
\* invalid id if id <= 0; otherwise empty title if the title is the empty
\* string; otherwise invalid status if the status is not one of the three
\* enumerated values; otherwise success.  Validate does not modify the task.
C20_ValidatePrecedence ==
    (pc[1] = "done" /\ call[1].op = "Validate") =>
        /\ ret[1].err = ExpectedReason(call[1].task)
        /\ local[1].task = call[1].task

\* Validate has been called on a task wrong in all three ways and has
\* reported the id
C20_Witness ==
    /\ pc[1] = "done"
    /\ call[1].op = "Validate"
    /\ call[1].task.ID <= 0
    /\ call[1].task.Title = <<>>
    /\ call[1].task.Status \notin EnumeratedStatuses
    /\ ret[1].err = <<"id must be a positive integer">>

----------------------------------------------------------------------------
(* C21 *)

\* the mutex is held by those inside the locked part of a method and by
\* nobody else: when no method is there, the mutex is free
HeldByThoseInside ==
    /\ mutex.writer # 0 => HoldsExclusive(mutex.writer)
    /\ \A p \in mutex.readers : HoldsShared(p)
    /\ (\A p \in Procs : OutsideStore(p)) => mutex = Free

\* while a call has not returned, some goroutine can take a step
NoDeadlock == (\E p \in Procs : pc[p] # "done") => ENABLED NextStore

\* C21: every store method releases the lock it took on every path, the
\* duplicate-ID and not-found paths included: when no method is inside its
\* locked part the lock is free, no reachable state is a deadlock, and
\* under fair scheduling every started Create/Get/List/Update/Delete call
\* eventually returns.
C21_LockReleased ==
    /\ [](HeldByThoseInside /\ NoDeadlock)
    /\ \A p \in Procs : <>(pc[p] = "done")

\* a CreateTask has returned the duplicate-ID error, the other call has
\* returned too, and the lock is free
C21_Witness ==
    /\ \A p \in Procs : pc[p] = "done"
    /\ call[1].op = "Create"
    /\ ret[1].err = DuplicateMsg(call[1].task.ID)
    /\ call[2].op \in {"Update", "Delete"}
    /\ mutex = Free

----------------------------------------------------------------------------
(* C22 *)

\* a PUT to an integer id the store does not hold: 400 when the body is
\* malformed or invalid, 404 when it is valid, and nothing else
PutToAbsent ==
    (/\ req = NoReq
     /\ IsItem(req', "PUT")
     /\ Addressed(req')
     /\ Atoi(req'.id).n \notin DOMAIN tasks)
        => /\ ~req'.body.wellformed =>
                resp'.status = 400 /\ resp'.msg = <<"invalid JSON">>
           /\ (req'.body.wellformed /\ InvalidPayload(req'.body)) =>
                resp'.status = 400 /\ resp'.msg = Reason(req'.body)
           /\ ValidPayload(req'.body) =>
                resp'.status = 404 /\ resp'.msg = NotFoundMsg(Atoi(req'.id).n)
           /\ tasks' = tasks

\* C22: on PUT /todos/{id} decoding and validation come before the
\* existence check: a PUT with a malformed or invalid body to an id the
\* store does not hold is answered 400, not 404, and 404 is the answer only
\* to a valid body on an absent id.
C22_ValidationBeforeLookup ==
    [][ /\ PutToAbsent
        /\ (req = NoReq /\ IsItem(req', "PUT") /\ resp'.status = 404)
                => /\ ValidPayload(req'.body)
                   /\ Addressed(req')
                   /\ Atoi(req'.id).n \notin DOMAIN tasks ]_vars

\* a PUT with an unknown status to an id the store does not hold, while it
\* holds another, was answered 400 invalid status
C22_Witness ==
    /\ IsItem(req, "PUT")
    /\ Addressed(req)
    /\ Atoi(req.id).n \notin DOMAIN tasks
    /\ tasks # NewTaskStore
    /\ req.body.wellformed
    /\ req.body.id > 0
    /\ ~Blank(req.body.title)
    /\ resp.status = 400
    /\ resp.msg = <<"invalid status">>

----------------------------------------------------------------------------
(* C23 *)

\* goroutine p took this step
Stepped(p) == pc'[p] # pc[p] \/ local'[p] # local[p] \/ ret'[p] # ret[p]

\* every key other than id is in the map after the step exactly if it was
\* before, with the same record
OthersUntouched(id) ==
    /\ DOMAIN tasks' \ {id} = DOMAIN tasks \ {id}
    /\ \A k \in DOMAIN tasks \ {id} : tasks'[k] = tasks[k]

\* C23: each store method touches only the record it is addressed to: a
\* CreateTask, UpdateTask or DeleteTask on id leaves the record of every
\* other id as it was and neither adds nor removes another key; GetTask and
\* GetAllTasks leave the whole map as it was.
C23_OnlyAddressedRecord ==
    [][ \A p \in Procs :
            Stepped(p) =>
                IF call[p].op \in Readers
                THEN tasks' = tasks
                ELSE OthersUntouched(CheckedID(p)) ]_vars

\* UpdateTask(1, ...) with a payload that carries ID 2 has succeeded and
\* changed the map, and the record of id 2 is the one stored at the start
C23_Witness ==
    /\ call[1].op = "Update"
    /\ call[1].id = 1
    /\ call[1].task.ID = 2
    /\ pc[1] = "done"
    /\ ret[1].err = <<>>
    /\ tasks # tasks0
    /\ 2 \in DOMAIN tasks
    /\ tasks[2] = tasks0[2]

----------------------------------------------------------------------------
(* C24 *)

\* p deletes an id the map held at the start, q creates a task with that
\* id, and no other goroutine writes the map
DeleteAndCreate(p, q) ==
    /\ p # q
    /\ call[p].op = "Delete"
    /\ call[q].op = "Create"
    /\ call[q].task.ID = call[p].id
    /\ call[p].id \in DOMAIN tasks0
    /\ \A r \in Procs \ {p, q} : call[r].op \in Readers

\* p's DeleteTask found the id and has removed it
Deleted(p) == local[p].ok /\ pc[p] \in {"unlock", "return", "done"}

\* q's CreateTask looks for its ID after p's delete: it does not find it
\* and goes on to write
CreateAfterDelete(p, q) ==
    (DeleteAndCreate(p, q) /\ Deleted(p) /\ pc[q] = "read" /\ pc'[q] # "read")
        => ~local'[q].ok /\ pc'[q] = "write"

\* both have returned without error: the map holds the created task, whole,
\* and GetTask returns it
NewRecordOnly(p, q) ==
    (/\ DeleteAndCreate(p, q)
     /\ pc[p] = "done"
     /\ pc[q] = "done"
     /\ ret[p].err = <<>>
     /\ ret[q].err = <<>>)
        => /\ call[p].id \in DOMAIN tasks
           /\ tasks[call[p].id] = call[q].task
           /\ GetTask(tasks, call[p].id).err = <<>>
           /\ GetTask(tasks, call[p].id).task = call[q].task

\* C24: an ID can be used again after its deletion: after a successful
\* DeleteTask(id) a CreateTask with that id succeeds, with no duplicate-ID
\* error, and GetTask(id) then returns the newly created record, no field
\* of the deleted record surviving.
C24_IDReusable ==
    /\ [][\A p, q \in Procs : CreateAfterDelete(p, q)]_vars
    /\ [](\A p, q \in Procs : NewRecordOnly(p, q))

\* task 1 was deleted and created anew with another title, description and
\* status; the map holds the new record
C24_Witness ==
    /\ DeleteAndCreate(1, 2)
    /\ pc[1] = "done"
    /\ pc[2] = "done"
    /\ ret[1].err = <<>>
    /\ ret[2].err = <<>>
    /\ tasks0[1].Title # call[2].task.Title
    /\ tasks0[1].Description # call[2].task.Description
    /\ tasks0[1].Status # call[2].task.Status
    /\ tasks[1] = call[2].task

====
